---------------------------- MODULE Spec2Model ----------------------------
(***************************************************************************)
(* Crawl-control core of the LinkedIn jobs scraper.                        *)
(*                                                                         *)
(* The model covers LinkedinJobsSpider (counters, limit flag, dedup set,   *)
(* the three parse callbacks and the shutdown handler), the spider and     *)
(* downloader middlewares, and the SecurityManager classification used by  *)
(* the downloader middleware.  The Scrapy engine is the environment: a     *)
(* scheduler holding the requests not yet handed to the downloader, one    *)
(* downloader slot (CONCURRENT_REQUESTS = 1) and the queue of responses    *)
(* waiting for their spider callback.  The engine picks the next request,  *)
(* the next response and the moment a callback's generator is advanced in  *)
(* any order.                                                              *)
(*                                                                         *)
(* A URL is abstracted to the job it shows and the form of the URL:        *)
(*   "view"  .../jobs/view/<id>               (id pattern 'view/(\d+)')    *)
(*   "ref"   .../jobs/view/<id>?refId=...     (same id, different URL)     *)
(*   "slug"  a job URL matching none of the id patterns                    *)
(* A job id is a number: 0 is Python's None, 1..NJobs are real ids, and    *)
(* the 'gen-<md5>' fallback of a URL is a number above GenBase.            *)
(***************************************************************************)
EXTENDS Integers, Sequences, FiniteSets, TLC

\* ------------------------------------------------------------------ bounds
NJobs == 2
MaxCards == 2
MaxPagesBound == 2
MaxJobsBound == 2
MaxStartUrls == 2
MaxFaults == 1
MaxRetryFaults == 4
MaxLinks == 2
MaxPageLinks == 1
MaxMagnitude == 3
MantissaBits == 8
MaxQueueUrls == 3
MaxItems == 4

\* ------------------------------------------------------- program constants
MAX_RETRIES == 3
DEFAULT_MAX_PAGES == 5
GenBase == 100

None == 0
NoSlot == [cb |-> "none"]
NoGen == [cb |-> "none"]
NoLink == [job |-> 0, form |-> "none"]
NoCall == [fn |-> "none"]
NoResult == [fn |-> "none"]
ListingUrl == [job |-> 0, form |-> "listing"]
CheckpointUrl == [job |-> 0, form |-> "checkpoint"]

Forms == {"view", "ref", "slug"}
Links == [job : 1..NJobs, form : Forms]

VARIABLES
  max_pages_arg,                               \* the max_pages argument, 0 if unset
  max_pages, max_jobs, collect_urls_only,      \* spider configuration
  page_count, job_count, reached_job_limit,    \* spider counters and flag
  processed_job_ids,                           \* spider dedup set
  scheduler,                                   \* requests waiting in the engine
  slot,                                        \* request in the downloader
  squeue,                                      \* responses waiting for a callback
  gen,                                         \* the running listing callback
  emitted,                                     \* job records yielded to the sink
  url_items,                                   \* URL items yielded to the sink
  phase,                                       \* "running", "closing", "exited"
  stop_signalled,                              \* handle_shutdown has run
  fetched_at_stop,                             \* history: responses held at the stop
  budget,                                      \* hostile network outcomes still to come
  links_left,                                  \* job links the site still shows
  call,                                        \* arguments of a function under test
  result,                                      \* what the function returned
  request_queue,                               \* the Apify request queue
  request_info,                                \* request process_queue_urls works on
  processed_count,                             \* process_queue_urls' counter
  queue_pc,                                    \* where process_queue_urls stands
  items,                                       \* LinkedinJobPipeline.items
  json_output,                                 \* the list in the output file
  arrived,                                     \* history: did item k get through
  pipeline_open                                \* close_spider has not run yet

cfgvars == <<max_pages_arg, max_pages, max_jobs, collect_urls_only>>
spidervars == <<page_count, job_count, reached_job_limit, processed_job_ids>>
enginevars == <<scheduler, slot, squeue, gen, phase, budget, links_left>>
outvars == <<emitted, url_items>>
histvars == <<stop_signalled, fetched_at_stop>>
fnvars == <<call, result>>
queuevars == <<request_queue, request_info, processed_count, queue_pc>>
storevars == <<items, json_output, arrived, pipeline_open>>
crawlvars == <<cfgvars, spidervars, enginevars, outvars, histvars>>
vars == <<cfgvars, spidervars, enginevars, outvars, histvars, fnvars, queuevars,
          storevars>>

Max(a, b) == IF a > b THEN a ELSE b

\* ------------------------------------------------------------ constructors
\* LinkedinJobsSpider.__init__: int(max_pages) if max_pages else 5
init_max_pages(arg) == IF arg # 0 THEN arg ELSE DEFAULT_MAX_PAGES

\* LinkedinJobsSpider.__init__: int(max_jobs) if max_jobs else 0
init_max_jobs(arg) == IF arg # 0 THEN arg ELSE 0

\* scrapy.Request as the spider builds it; retry_count is meta['retry_count'],
\* fetches and chal_retries are history (network attempts, challenge retries),
\* listing and seq are history too (the listing page a candidate was
\* enumerated on and its position in the enumeration, 0 for other requests).
Request(cb, page, url, job_id) ==
  [cb |-> cb, page |-> page, url |-> url, job_id |-> job_id,
   retry_count |-> 0, fetches |-> 0, chal_retries |-> 0,
   listing |-> 0, seq |-> 0]


\* --------------------------------------------------------- SecurityManager
\* A response as the downloader delivers it: whether its URL contains
\* 'checkpoint', its status code, and the phrases its text contains.
PlainText == {"job posting"}
CaptchaText == {"job posting", "unusual activity"}
LimitText == {"Job limit reached"}
Statuses == {200, 404, 429, 500, 999}
NetResponses ==
  {[checkpoint |-> FALSE, status |-> st, text |-> PlainText] : st \in Statuses}
    \cup {[checkpoint |-> TRUE, status |-> 200, text |-> PlainText],
          [checkpoint |-> FALSE, status |-> 200, text |-> CaptchaText]}

NoAction == [action |-> "none", lo |-> 0, hi |-> 0]

\* SecurityManager.handle_security_challenge: first matching rule wins; the
\* delay is random.uniform(lo, hi).
handle_security_challenge_client_first(checkpoint, status_code) ==
  IF checkpoint THEN [action |-> "retry", lo |-> 60, hi |-> 120]
  ELSE IF 400 <= status_code /\ status_code < 500
    THEN [action |-> "retry", lo |-> 30, hi |-> 60]
  ELSE IF status_code = 429 THEN [action |-> "retry", lo |-> 300, hi |-> 600]
  ELSE IF status_code = 999 THEN [action |-> "retry", lo |-> 120, hi |-> 240]
  ELSE IF 500 <= status_code /\ status_code < 600
    THEN [action |-> "retry", lo |-> 60, hi |-> 120]
  ELSE NoAction
handle_security_challenge(checkpoint, status_code) ==
  IF checkpoint THEN [action |-> "retry", lo |-> 60, hi |-> 120]
  ELSE IF status_code = 429 THEN [action |-> "retry", lo |-> 300, hi |-> 600]
  ELSE IF status_code = 999 THEN [action |-> "retry", lo |-> 120, hi |-> 240]
  ELSE IF 400 <= status_code /\ status_code < 500
    THEN [action |-> "retry", lo |-> 30, hi |-> 60]
  ELSE IF 500 <= status_code /\ status_code < 600
    THEN [action |-> "retry", lo |-> 60, hi |-> 120]
  ELSE NoAction

captcha_indicators ==
  {"captcha", "CAPTCHA", "security verification", "verify you are a human",
   "unusual activity", "automated access", "prove you're not a robot"}

\* SecurityManager.is_captcha_page
is_captcha_page(response_text) ==
  \E indicator \in captcha_indicators : indicator \in response_text

\* ------------------------------------------------------------ id resolution
\* LinkedinJobsSpider._extract_job_id_from_url: the id the URL patterns find,
\* None when no pattern matches.
extract_job_id_from_url(url) ==
  IF url.form \in {"view", "ref"} THEN url.job ELSE None

\* hashlib.md5(url).hexdigest()[:10] with the 'gen-' prefix: one synthetic id
\* per URL, disjoint from the real ids.
FormIndex(form) ==
  CASE form = "view" -> 1
    [] form = "ref" -> 2
    [] form = "slug" -> 3
    [] form = "checkpoint" -> 4
    [] OTHER -> 5
gen_id_none(url) == None
gen_id(url) == GenBase + 10 * url.job + FormIndex(url.form)

\* LinkedinJobsSpider._extract_job_id_comprehensive: Method 1 the meta id,
\* Method 2 the URL, Method 3 the data-job-id attribute, Method 4 the
\* canonical link, Method 5 the embedded JSON, Method 6 the inline scripts,
\* then the 'gen-' fallback.  Each 'if not job_id' skips a method once an id
\* is found.
job_id_methods_url_first(meta_id, url, data_job_id, canonical_url, json_id, script_id) ==
  IF extract_job_id_from_url(url) # None THEN extract_job_id_from_url(url)
  ELSE IF meta_id # None THEN meta_id
  ELSE IF data_job_id # None THEN data_job_id
  ELSE IF extract_job_id_from_url(canonical_url) # None
    THEN extract_job_id_from_url(canonical_url)
  ELSE IF json_id # None THEN json_id
  ELSE IF script_id # None THEN script_id
  ELSE gen_id(url)
job_id_methods(meta_id, url, data_job_id, canonical_url, json_id, script_id) ==
  IF meta_id # None THEN meta_id
  ELSE IF extract_job_id_from_url(url) # None THEN extract_job_id_from_url(url)
  ELSE IF data_job_id # None THEN data_job_id
  ELSE IF extract_job_id_from_url(canonical_url) # None
    THEN extract_job_id_from_url(canonical_url)
  ELSE IF json_id # None THEN json_id
  ELSE IF script_id # None THEN script_id
  ELSE gen_id(url)

\* _extract_job_id_comprehensive on a response of the crawl, whose document
\* sources (data attribute, canonical link, embedded JSON, inline script) are
\* folded into content_id.
extract_job_id_comprehensive(response) ==
  job_id_methods(response.req.job_id, response.url, response.content_id,
                 NoLink, None, None)

\* --------------------------------------------------------------- responses
\* The HtmlResponse process_request builds when the limit flag is set.
SyntheticResponse(request) ==
  [req |-> request, url |-> request.url, checkpoint |-> FALSE,
   text |-> LimitText, content_id |-> None, synthetic |-> TRUE,
   exhausted |-> FALSE, limit_passed |-> TRUE]

\* A downloaded response handed on by process_response.
PassedResponse(request, net, cid, exhausted, limit_passed) ==
  [req |-> request,
   url |-> IF net.checkpoint THEN CheckpointUrl ELSE request.url,
   checkpoint |-> net.checkpoint, text |-> net.text,
   content_id |-> cid, synthetic |-> FALSE,
   exhausted |-> exhausted, limit_passed |-> limit_passed]

\* Ids a document can carry for the job a URL shows.
ContentIds(url) == IF url.form = "slug" THEN {None, url.job} ELSE {None}

\* Scrapy's HttpErrorMiddleware (enabled by default, not overridden by
\* SPIDER_MIDDLEWARES): only 2xx responses reach a callback.
HttpErrorAllows(status) == 200 <= status /\ status < 300

\* LinkedinScraperSpiderMiddleware.process_spider_output applied to what one
\* callback step yields: with the flag set only what has no 'callback'
\* attribute (an item, not a request) is passed on.
process_spider_output_drop_all(flag, results) == IF flag THEN {} ELSE results
process_spider_output(flag, results) ==
  IF flag THEN {i \in results : "cb" \notin DOMAIN i} ELSE results

\* LinkedinJobsSpider.check_job_limit: "raise" (CloseSpider), "true", "false"
check_job_limit ==
  IF max_jobs > 0 /\ job_count >= max_jobs
    THEN IF ~reached_job_limit THEN "raise" ELSE "true"
    ELSE "false"


\* ------------------------------------------------------------------- Init
\* LinkedinJobsSpider.start_requests for a keyword/location search.
start_job_search == {Request("parse_search_results", 1, ListingUrl, None)}

\* start_company_job_search followed by parse_company_page: the first
\* request that reaches a listing callback is the company jobs page 1.
start_company_job_search ==
  {Request("parse_company_jobs_page", 1, ListingUrl, None)}

\* start_requests with explicit job URLs (each contains 'jobs/view').
StartUrlLists ==
  {S \in SUBSET {l \in Links : l.form \in {"view", "ref"}} :
     1 <= Cardinality(S) /\ Cardinality(S) <= MaxStartUrls}
start_urls_requests(urls) ==
  {Request("parse_job_details", 0, u, None) : u \in urls}

\* LinkedinJobsSpider.__init__ for a max_pages argument taken from page_args.
InitSpider(page_args) ==
  /\ max_pages_arg \in page_args
  /\ max_pages = init_max_pages(max_pages_arg)
  /\ max_jobs \in {init_max_jobs(a) : a \in 0..MaxJobsBound}
  /\ collect_urls_only \in BOOLEAN
  /\ page_count = 0
  /\ job_count = 0
  /\ reached_job_limit = FALSE
  /\ processed_job_ids = {}
  /\ slot = NoSlot
  /\ squeue = {}
  /\ gen = NoGen
  /\ emitted = <<>>
  /\ url_items = <<>>
  /\ phase = "running"
  /\ stop_signalled = FALSE
  /\ fetched_at_stop = {}

\* The item LinkedinJobPipeline.__init__ puts into its list, and the one
\* close_spider adds.
test_item == [kind |-> "test", arrival |-> 0]
dummy_job == [kind |-> "dummy", arrival |-> 0]

\* The actor's request queue is not in use, and the pipeline is as
\* constructed: the test item is in the list and in the output file.
HostIdle ==
  /\ request_queue = [pending |-> {}, handled |-> {}, no_url |-> {}]
  /\ request_info = None
  /\ processed_count = 0
  /\ queue_pc = "idle"
  /\ items = <<test_item>>
  /\ json_output = <<test_item>>
  /\ arrived = <<>>
  /\ pipeline_open = TRUE

\* No function is under test during a crawl.
NoCalls == call = NoCall /\ result = NoResult /\ HostIdle

\* The spider as constructed with default arguments, before start_requests:
\* the state in which a function of the program is applied on its own.
InitIdle ==
  /\ InitSpider({None})
  /\ HostIdle
  /\ max_jobs = init_max_jobs(None)
  /\ collect_urls_only = FALSE
  /\ scheduler = {}
  /\ budget = 0
  /\ links_left = 0

\* A crawl started from a keyword search, a company, or explicit job URLs.
Init ==
  /\ InitSpider(1..MaxPagesBound)
  /\ \/ scheduler = start_job_search
     \/ scheduler = start_company_job_search
     \/ \E urls \in StartUrlLists : scheduler = start_urls_requests(urls)
  /\ budget = MaxFaults
  /\ links_left = MaxLinks
  /\ NoCalls

\* A run with process_job_details_only: start_requests yields only detail
\* requests for the given URLs.
InitDetails ==
  /\ InitSpider(1..MaxPagesBound)
  /\ \E urls \in StartUrlLists : scheduler = start_urls_requests(urls)
  /\ budget = MaxRetryFaults
  /\ links_left = 0
  /\ NoCalls

\* A keyword or company crawl started without a max_pages argument, on a site
\* that answers every request with a plain page.
InitPages ==
  /\ InitSpider({None})
  /\ \/ scheduler = start_job_search
     \/ scheduler = start_company_job_search
  /\ budget = 0
  /\ links_left = MaxPageLinks
  /\ NoCalls

\* The plain 200 answer; every other network outcome is a hostile one.
PlainResponse == [checkpoint |-> FALSE, status |-> 200, text |-> PlainText]

\* --------------------------------------------------- downloader middleware
\* process_request: 'if hasattr(spider, ...) and spider.reached_job_limit'
request_skipped_never == FALSE
request_skipped == reached_job_limit

\* process_response: the same test at its top.
response_skipped_off == FALSE
response_skipped == reached_job_limit

\* process_exception: the same test at its top.
exception_skipped_never == FALSE
exception_skipped == reached_job_limit

\* LinkedinScraperDownloaderMiddleware.process_request, called when the
\* engine takes the next request from the scheduler.  With the flag set the
\* request is answered with a synthetic response; otherwise it goes to the
\* downloader, i.e. to the network.
process_request ==
  /\ phase = "running"
  /\ slot = NoSlot
  /\ \E request \in scheduler :
       /\ scheduler' = scheduler \ {request}
       /\ IF request_skipped
            THEN /\ squeue' = squeue \cup {SyntheticResponse(request)}
                 /\ UNCHANGED slot
            ELSE /\ slot' = [request EXCEPT !.fetches = @ + 1]
                 /\ UNCHANGED squeue
  /\ UNCHANGED <<fnvars, queuevars, storevars,
                 cfgvars, spidervars, gen, phase, budget, links_left, outvars,
                 histvars>>

\* process_response: retry_count = meta.get('retry_count', 0) + 1, retried
\* while retry_count <= 3.
response_may_retry_loose(request) == request.retry_count <= MAX_RETRIES
response_may_retry(request) == request.retry_count + 1 <= MAX_RETRIES

\* process_exception: the same computation and cap.
exception_may_retry_loose(request) == request.retry_count <= MAX_RETRIES
exception_may_retry(request) == request.retry_count + 1 <= MAX_RETRIES

\* LinkedinScraperDownloaderMiddleware.process_response for the response the
\* network returns for the request in the downloader.
process_response ==
  /\ phase # "exited"
  /\ slot # NoSlot
  /\ \E net \in NetResponses, cid \in ContentIds(slot.url) :
       /\ net # PlainResponse => budget > 0
       /\ budget' = IF net # PlainResponse THEN budget - 1 ELSE budget
       /\ LET action == handle_security_challenge(net.checkpoint, net.status)
           challenged == action # NoAction
           passed(exhausted, limit_passed) ==
             IF HttpErrorAllows(net.status)
               THEN squeue \cup {PassedResponse(slot, net, cid, exhausted, limit_passed)}
               ELSE squeue
          IN IF response_skipped
               THEN /\ squeue' = passed(FALSE, TRUE)
                    /\ UNCHANGED scheduler
               ELSE IF challenged /\ action.action = "retry" /\ response_may_retry(slot)
                 THEN /\ scheduler' = scheduler \cup
                           {[slot EXCEPT !.retry_count = @ + 1,
                                         !.chal_retries = @ + 1]}
                      /\ UNCHANGED squeue
                 ELSE /\ squeue' = passed(challenged, FALSE)
                      /\ UNCHANGED scheduler
  /\ slot' = NoSlot
  /\ UNCHANGED <<fnvars, queuevars, storevars,
                 cfgvars, spidervars, gen, phase, links_left, outvars,
                 histvars>>

\* LinkedinScraperDownloaderMiddleware.process_exception for a network error
\* on the request in the downloader.
process_exception ==
  /\ phase # "exited"
  /\ slot # NoSlot
  /\ budget > 0
  /\ budget' = budget - 1
  /\ IF exception_skipped
       THEN UNCHANGED scheduler
       ELSE IF exception_may_retry(slot)
         THEN scheduler' = scheduler \cup {[slot EXCEPT !.retry_count = @ + 1]}
         ELSE UNCHANGED scheduler
  /\ slot' = NoSlot
  /\ UNCHANGED <<fnvars, queuevars, storevars,
                 cfgvars, spidervars, squeue, gen, phase, links_left, outvars,
                 histvars>>


\* ------------------------------------------------------------------ spider
\* The engine schedules what a callback step yields, after the spider
\* middleware has filtered it.
Schedule(requests) ==
  scheduler' = scheduler \cup process_spider_output(reached_job_limit, requests)

\* The position of the candidate a listing loop is at, counted over all the
\* candidates enumerated so far.
DiscoveryIndex == MaxLinks - (links_left + gen.left) + 1

\* A listing callback yields the detail request of a candidate, which
\* remembers where the candidate was enumerated.
ScheduleDetail(job_link, job_id) ==
  Schedule({[Request("parse_job_details", 0, job_link, job_id)
               EXCEPT !.listing = gen.page, !.seq = DiscoveryIndex]})

\* The output sequence after a callback step yielded item, the spider
\* middleware having seen it with the flag as it stood at the yield.
Emit(output, item, flag) ==
  IF item \in process_spider_output(flag, {item})
    THEN Append(output, item) ELSE output

\* check_job_limit raising CloseSpider inside a listing callback: the flag is
\* set, the generator dies and the engine starts closing the spider.
RaiseCloseSpider ==
  /\ reached_job_limit' = TRUE
  /\ gen' = NoGen
  /\ phase' = "closing"

\* parse_job_details: 'if job_id in self.processed_job_ids and job_id !=
\* response.meta.get("job_id")'
already_processed_never(job_id, meta_id) == FALSE
already_processed(job_id, meta_id) ==
  job_id \in processed_job_ids /\ job_id # meta_id

\* parse_job_details: 'if self.reached_job_limit: return' at its top.
details_skipped_never == FALSE
details_skipped == reached_job_limit

\* parse_job_details: 'if self.max_jobs > 0 and self.job_count >= self.max_jobs'
\* evaluated after the increment.
limit_reached_after_late(count) == max_jobs > 0 /\ count > max_jobs
limit_reached_after(count) == max_jobs > 0 /\ count >= max_jobs

\* parse_search_results: 'not self.reached_job_limit and self.page_count <
\* self.max_pages'
search_may_paginate_loose == ~reached_job_limit /\ page_count <= max_pages
search_may_paginate == ~reached_job_limit /\ page_count < max_pages

\* parse_company_jobs_page: 'not self.reached_job_limit and page <
\* self.max_pages'
company_may_paginate(page) == ~reached_job_limit /\ page < max_pages

\* LinkedinJobsSpider.parse_job_details (one yield at its end, so it runs as
\* one step) with the part of the item the claims are about.
JobCountId(n) == GenBase \div 2 + n

\* datetime.now().strftime('%Y-%m-%dT%H:%M:%S') at the time of the crawl.
strftime_now == "2025-01-01T00:00:00"

JobItem(job_id, response) ==
  [id |-> IF job_id # None THEN job_id ELSE JobCountId(job_count + 1),
   scraped_at |-> strftime_now,
   link |-> response.url, meta_id |-> response.req.job_id,
   listing |-> response.req.listing, seq |-> response.req.seq,
   challenge |-> response.exhausted, captcha |-> is_captcha_page(response.text)]

parse_job_details ==
  /\ phase # "exited"
  /\ \E response \in squeue :
       /\ response.req.cb = "parse_job_details"
       /\ squeue' = squeue \ {response}
       /\ LET job_id == extract_job_id_comprehensive(response)
          IN IF details_skipped
               THEN UNCHANGED <<spidervars, emitted>>
             ELSE IF already_processed(job_id, response.req.job_id)
               THEN UNCHANGED <<spidervars, emitted>>
             ELSE /\ processed_job_ids' = processed_job_ids \cup {job_id}
                  /\ job_count' = job_count + 1
                  /\ reached_job_limit' =
                       (reached_job_limit \/ limit_reached_after(job_count + 1))
                  /\ emitted' = Emit(emitted, JobItem(job_id, response),
                                     reached_job_limit
                                       \/ limit_reached_after(job_count + 1))
                  /\ UNCHANGED page_count
  /\ UNCHANGED <<fnvars, queuevars, storevars,
                 cfgvars, scheduler, slot, gen, phase, budget, links_left,
                 url_items, histvars>>

\* LinkedinJobsSpider.parse_search_results up to its first loop: page
\* bookkeeping, the limit check and the choice of the card selector.  The
\* page shows n cards, or no card and n direct job links.
parse_search_results ==
  /\ phase # "exited"
  /\ gen = NoGen
  /\ \E response \in squeue :
       /\ response.req.cb = "parse_search_results"
       /\ squeue' = squeue \ {response}
       /\ page_count' = Max(page_count, response.req.page)
       /\ LET limit == check_job_limit
          IN CASE limit = "raise" ->
                    /\ RaiseCloseSpider
                    /\ UNCHANGED links_left
               [] limit = "true" ->
                    /\ UNCHANGED <<reached_job_limit, gen, phase, links_left>>
               [] OTHER ->
                    /\ \E shape \in {"cards", "links"}, n \in 0..MaxCards :
                         /\ n <= links_left
                         /\ links_left' = links_left - n
                         /\ shape = "links" => n > 0
                         /\ response.synthetic => (shape = "cards" /\ n = 0)
                         /\ gen' = [cb |-> "parse_search_results",
                                    page |-> response.req.page,
                                    shape |-> shape, left |-> n]
                    /\ UNCHANGED <<reached_job_limit, phase>>
  /\ UNCHANGED <<fnvars, queuevars, storevars,
                 cfgvars, job_count, processed_job_ids, scheduler, slot,
                 budget, outvars, histvars>>

\* One iteration of 'for job_card in job_cards' in parse_search_results.
search_card ==
  /\ phase # "exited"
  /\ gen.cb = "parse_search_results" /\ gen.shape = "cards" /\ gen.left > 0
  /\ LET limit == check_job_limit
     IN CASE limit = "raise" ->
               /\ RaiseCloseSpider
               /\ UNCHANGED <<job_count, processed_job_ids, scheduler, url_items>>
          [] limit = "true" ->
               /\ gen' = NoGen
               /\ UNCHANGED <<reached_job_limit, phase, job_count,
                              processed_job_ids, scheduler, url_items>>
          [] OTHER ->
               /\ gen' = [gen EXCEPT !.left = @ - 1]
               /\ UNCHANGED <<reached_job_limit, phase>>
               /\ \E job_link \in Links \cup {NoLink} :
                    LET job_id == extract_job_id_from_url(job_link)
                    IN IF job_link = NoLink \/ job_id \in processed_job_ids
                         THEN UNCHANGED <<job_count, processed_job_ids,
                                          scheduler, url_items>>
                       ELSE /\ processed_job_ids' = processed_job_ids \cup {job_id}
                            /\ IF collect_urls_only
                                 THEN /\ job_count' = job_count + 1
                                      /\ url_items' = Emit(url_items,
                                           [url |-> job_link, id |-> job_id],
                                           reached_job_limit)
                                      /\ UNCHANGED scheduler
                                 ELSE /\ ScheduleDetail(job_link, job_id)
                                      /\ UNCHANGED <<job_count, url_items>>
  /\ UNCHANGED <<fnvars, queuevars, storevars,
                 cfgvars, page_count, slot, squeue, budget, links_left,
                 emitted, histvars>>

\* One iteration of the direct-link fallback 'for job_link in job_links' of
\* parse_search_results (a page without cards).
search_link ==
  /\ phase # "exited"
  /\ gen.cb = "parse_search_results" /\ gen.shape = "links" /\ gen.left > 0
  /\ LET limit == check_job_limit
     IN CASE limit = "raise" ->
               /\ RaiseCloseSpider
               /\ UNCHANGED <<job_count, processed_job_ids, scheduler, url_items>>
          [] limit = "true" ->
               /\ gen' = NoGen
               /\ UNCHANGED <<reached_job_limit, phase, job_count,
                              processed_job_ids, scheduler, url_items>>
          [] OTHER ->
               /\ gen' = [gen EXCEPT !.left = @ - 1]
               /\ UNCHANGED <<reached_job_limit, phase>>
               /\ \E job_link \in Links :
                    LET job_id == extract_job_id_from_url(job_link)
                    IN IF collect_urls_only
                         THEN IF job_id \in processed_job_ids
                                THEN UNCHANGED <<job_count, processed_job_ids,
                                                 scheduler, url_items>>
                                ELSE /\ processed_job_ids' =
                                          processed_job_ids \cup {job_id}
                                     /\ job_count' = job_count + 1
                                     /\ url_items' = Emit(url_items,
                                          [url |-> job_link, id |-> job_id],
                                           reached_job_limit)
                                     /\ UNCHANGED scheduler
                         ELSE /\ ScheduleDetail(job_link, None)
                 /\ UNCHANGED <<job_count, processed_job_ids, url_items>>
  /\ UNCHANGED <<fnvars, queuevars, storevars,
                 cfgvars, page_count, slot, squeue, budget, links_left,
                 emitted, histvars>>

\* The pagination block that ends parse_search_results.
search_paginate ==
  /\ phase # "exited"
  /\ gen.cb = "parse_search_results" /\ gen.left = 0
  /\ IF search_may_paginate
       THEN \E next_page \in BOOLEAN :
              IF next_page
                THEN Schedule({Request("parse_search_results", page_count + 1,
                                       ListingUrl, None)})
                ELSE UNCHANGED scheduler
       ELSE UNCHANGED scheduler
  /\ gen' = NoGen
  /\ UNCHANGED <<fnvars, queuevars, storevars,
                 cfgvars, spidervars, slot, squeue, phase, budget, links_left,
                 outvars, histvars>>


\* LinkedinJobsSpider.parse_company_jobs_page up to its loop.  A page without
\* job links falls back to a search request carrying the same page number.
parse_company_jobs_page ==
  /\ phase # "exited"
  /\ gen = NoGen
  /\ \E response \in squeue :
       /\ response.req.cb = "parse_company_jobs_page"
       /\ squeue' = squeue \ {response}
       /\ page_count' = Max(page_count, response.req.page)
       /\ LET limit == check_job_limit
              page == response.req.page
          IN CASE limit = "raise" ->
                    /\ RaiseCloseSpider
                    /\ UNCHANGED <<scheduler, links_left>>
               [] limit = "true" ->
                    /\ UNCHANGED <<reached_job_limit, gen, phase, scheduler,
                                   links_left>>
               [] OTHER ->
                    /\ \E n \in 0..MaxCards :
                         /\ n <= links_left
                         /\ links_left' = links_left - n
                         /\ response.synthetic => n = 0
                         /\ IF n = 0
                              THEN /\ Schedule({Request("parse_search_results",
                                                        page, ListingUrl, None)})
                                   /\ gen' = NoGen
                              ELSE /\ gen' = [cb |-> "parse_company_jobs_page",
                                              page |-> page,
                                              shape |-> "links", left |-> n]
                                   /\ UNCHANGED scheduler
                    /\ UNCHANGED <<reached_job_limit, phase>>
  /\ UNCHANGED <<fnvars, queuevars, storevars,
                 cfgvars, job_count, processed_job_ids, slot, budget, outvars,
                 histvars>>

\* One iteration of 'for job_link in job_links' in parse_company_jobs_page.
company_link ==
  /\ phase # "exited"
  /\ gen.cb = "parse_company_jobs_page" /\ gen.left > 0
  /\ LET limit == check_job_limit
     IN CASE limit = "raise" ->
               /\ RaiseCloseSpider
               /\ UNCHANGED <<job_count, processed_job_ids, scheduler, url_items>>
          [] limit = "true" ->
               /\ gen' = NoGen
               /\ UNCHANGED <<reached_job_limit, phase, job_count,
                              processed_job_ids, scheduler, url_items>>
          [] OTHER ->
               /\ gen' = [gen EXCEPT !.left = @ - 1]
               /\ UNCHANGED <<reached_job_limit, phase>>
               /\ \E job_link \in Links :
                    LET job_id == extract_job_id_from_url(job_link)
                    IN IF job_id \in processed_job_ids
                         THEN UNCHANGED <<job_count, processed_job_ids,
                                          scheduler, url_items>>
                       ELSE /\ processed_job_ids' = processed_job_ids \cup {job_id}
                            /\ IF collect_urls_only
                                 THEN /\ job_count' = job_count + 1
                                      /\ url_items' = Emit(url_items,
                                           [url |-> job_link, id |-> job_id],
                                           reached_job_limit)
                                      /\ UNCHANGED scheduler
                                 ELSE /\ ScheduleDetail(job_link, job_id)
                                      /\ UNCHANGED <<job_count, url_items>>
  /\ UNCHANGED <<fnvars, queuevars, storevars,
                 cfgvars, page_count, slot, squeue, budget, links_left,
                 emitted, histvars>>

\* The pagination block that ends parse_company_jobs_page: the next company
\* page when the page has a next link, else the search URL with start=page*25.
company_paginate ==
  /\ phase # "exited"
  /\ gen.cb = "parse_company_jobs_page" /\ gen.left = 0
  /\ IF company_may_paginate(gen.page)
       THEN \E next_page_link \in BOOLEAN :
              IF next_page_link
                THEN Schedule({Request("parse_company_jobs_page", gen.page + 1,
                                       ListingUrl, None)})
                ELSE Schedule({Request("parse_search_results", gen.page + 1,
                                       ListingUrl, None)})
       ELSE UNCHANGED scheduler
  /\ gen' = NoGen
  /\ UNCHANGED <<fnvars, queuevars, storevars,
                 cfgvars, spidervars, slot, squeue, phase, budget, links_left,
                 outvars, histvars>>

\* The run is over: the process has exited, or nothing is left to do.
RunOver ==
  \/ phase = "exited"
  \/ /\ slot = NoSlot
     /\ squeue = {}
     /\ gen = NoGen
     /\ (scheduler = {} \/ phase = "closing")

\* LinkedinJobsSpider.handle_shutdown on SIGTERM/SIGINT: sets the flag, asks
\* the engine to close the spider and calls sys.exit(0).  Whether SystemExit
\* ends the process at once or is absorbed by the reactor loop (the engine
\* then finishes closing) depends on the reactor, so both outcomes occur.
handle_shutdown ==
  /\ phase = "running"
  /\ ~stop_signalled
  /\ ~RunOver
  /\ reached_job_limit' = TRUE
  /\ stop_signalled' = TRUE
  /\ fetched_at_stop' =
       {r \in squeue : r.req.cb = "parse_job_details" /\ ~r.synthetic
                        /\ ~r.checkpoint /\ ~is_captcha_page(r.text)}
  /\ phase' \in {"closing", "exited"}
  /\ UNCHANGED <<fnvars, queuevars, storevars,
                 cfgvars, page_count, job_count, processed_job_ids,
                 scheduler, slot, squeue, gen, budget, links_left, outvars>>

Next ==
  \/ process_request
  \/ process_response
  \/ process_exception
  \/ parse_job_details
  \/ parse_search_results
  \/ search_card
  \/ search_link
  \/ search_paginate
  \/ parse_company_jobs_page
  \/ company_link
  \/ company_paginate
  \/ handle_shutdown

Spec == Init /\ [][Next]_vars

\* The engine keeps working while it has something to do: a request to hand
\* to the downloader, a download to finish, a response or a generator to
\* run.
FairSpec == Spec /\ WF_vars(Next)

\* The actions of a crawl whose network never fails.
NextPages ==
  \/ process_request
  \/ process_response
  \/ parse_job_details
  \/ parse_search_results
  \/ search_card
  \/ search_link
  \/ search_paginate
  \/ parse_company_jobs_page
  \/ company_link
  \/ company_paginate
  \/ handle_shutdown

PagesSpec == InitPages /\ [][NextPages]_vars

\* The actions a process_job_details_only run can take.
NextDetails ==
  \/ process_request
  \/ process_response
  \/ process_exception
  \/ parse_job_details
  \/ handle_shutdown

DetailSpec == InitDetails /\ [][NextDetails]_vars


\* ------------------------------------------- record fields of a job page
\* Python values of a text field: None, the empty string, a string of blanks,
\* and texts with or without surrounding blanks.
PyNone == "<None>"
SelectorValues == {PyNone, " ", "Nurse", " Nurse "}
MetaValues == {PyNone, "", "Cook"}
JsonValues == {PyNone, "", "Pilot"}
MultiSourceFields == {"title", "companyName", "location"}

\* Python truthiness of a text value: 'if not job_title'
truthy(value) == value # PyNone /\ value # ""

\* str.strip() on the values above.
strip(value) ==
  CASE value = " " -> ""
    [] value = " Nurse " -> "Nurse"
    [] OTHER -> value

\* The placeholder parse_job_details writes for a field it could not find.
Unknown(field) ==
  CASE field = "title" -> "Unknown Title"
    [] field = "companyName" -> "Unknown Company"
    [] field = "location" -> "Unknown Location"

\* _extract_additional_data result applied by parse_job_details: 'if key in
\* job_item.fields and value is not None: job_item[key] = value'
json_overrides(json_value) == json_value # PyNone

\* parse_job_details for one of title, companyName, location: the selector
\* value, else the referrer meta value; stripped; the placeholder when still
\* empty; then the value of the embedded JSON written over it.
field_value(field, selector, meta, json_value) ==
  LET extracted == selector
      fallen_back == IF ~truthy(extracted) THEN meta ELSE extracted
      cleaned == IF truthy(fallen_back) THEN strip(fallen_back) ELSE fallen_back
      item_value == IF truthy(cleaned) THEN cleaned ELSE Unknown(field)
  IN IF json_overrides(json_value) THEN json_value ELSE item_value

FieldCalls ==
  [fn : {"field_value"}, field : MultiSourceFields, selector : SelectorValues,
   meta : MetaValues, json : JsonValues]

InitFields ==
  /\ InitIdle
  /\ call \in FieldCalls
  /\ result = NoResult

\* parse_job_details fills the field of the record.
fill_field ==
  /\ call.fn = "field_value"
  /\ result = NoResult
  /\ result' = [fn |-> "field_value",
                value |-> field_value(call.field, call.selector, call.meta,
                                      call.json)]
  /\ UNCHANGED <<call, crawlvars, queuevars, storevars>>

NextFields == fill_field

FieldSpec == InitFields /\ [][NextFields]_vars

\* ----------------------------------------------------- id of a job page
\* A response for url whose meta and document carry the given ids.
JobIdCalls ==
  [fn : {"extract_job_id"}, meta_id : 0..NJobs, url : Links,
   data_job_id : 0..NJobs, canonical_url : Links \cup {NoLink},
   json_id : 0..NJobs, script_id : 0..NJobs]

InitJobId ==
  /\ InitIdle
  /\ call \in JobIdCalls
  /\ result = NoResult

\* parse_job_details resolves the id of the page.
extract_job_id ==
  /\ call.fn = "extract_job_id"
  /\ result = NoResult
  /\ result' = [fn |-> "extract_job_id",
                job_id |-> job_id_methods(call.meta_id, call.url,
                             call.data_job_id, call.canonical_url,
                             call.json_id, call.script_id)]
  /\ UNCHANGED <<call, crawlvars, queuevars, storevars>>

NextJobId == extract_job_id

JobIdSpec == InitJobId /\ [][NextJobId]_vars

\* ------------------------------------------------------- the debug flag
\* A search-results page as parse_search_results sees it: the number of job
\* cards, the number of direct job links (looked at only without cards),
\* whether it has a next-page link, its page number; and whether the working
\* directory accepts the file 'linkedin_response.html'.
SearchPages ==
  [cards : 0..MaxCards, links : 0..MaxCards, next_page : BOOLEAN,
   page : 1..MaxPagesBound, writable : BOOLEAN]

\* 'if self.debug: ... with open("linkedin_response.html", "w") ...' on a
\* page without cards: open() raises OSError when the file cannot be
\* created, and nothing in the callback catches it.
dump_raises(debug, search_page) ==
  debug /\ search_page.cards = 0 /\ ~search_page.writable

\* What parse_search_results yields for a page of distinct, new candidates
\* when no limit is reached: one detail request (or URL item) per card, or
\* per direct link when there is no card, then the next-page request.  All
\* other uses of self.debug in the spider, and SecurityManager's, only log.
search_results_output(debug, pages_limit, search_page) ==
  IF dump_raises(debug, search_page)
    THEN [raised |-> TRUE, candidates |-> 0, next_page |-> FALSE]
    ELSE [raised |-> FALSE,
          candidates |-> IF search_page.cards > 0 THEN search_page.cards
                         ELSE search_page.links,
          next_page |-> search_page.page < pages_limit /\ search_page.next_page]

DebugCalls ==
  [fn : {"parse_search_results"}, search_page : SearchPages,
   pages_limit : {init_max_pages(a) : a \in 0..MaxPagesBound}]

InitDebug ==
  /\ InitIdle
  /\ call \in DebugCalls
  /\ result = NoResult

\* The same response is parsed by a spider started with debug=False and by
\* one started with debug=True.
parse_with_and_without_debug ==
  /\ call.fn = "parse_search_results"
  /\ result = NoResult
  /\ result' = [fn |-> "parse_search_results",
                quiet |-> search_results_output(FALSE, call.pages_limit,
                                                call.search_page),
                verbose |-> search_results_output(TRUE, call.pages_limit,
                                                  call.search_page)]
  /\ UNCHANGED <<call, crawlvars, queuevars, storevars>>

NextDebug == parse_with_and_without_debug

DebugSpec == InitDebug /\ [][NextDebug]_vars

\* ----------------------------------------------------- parse_relative_time
\* Points in time and durations are counted in minutes.  datetime.now() at
\* the call:
now == 1000000

\* A relative-time text: the phrase it consists of, the number in front of a
\* unit, and whether it is written in capitals or padded with blanks.
TimeUnits == {"minute", "hour", "day", "week", "month"}
TimeWords == {"just now", "just posted", "yesterday"}
RelativeTimeTexts ==
  [phrase : TimeUnits, n : 0..MaxMagnitude, upper : BOOLEAN, padded : BOOLEAN]
    \cup [phrase : TimeWords \cup {"", "recently"}, n : {0},
          upper : BOOLEAN, padded : BOOLEAN]

\* relative_time_text.lower().strip()
lower_strip(text) == [text EXCEPT !.upper = FALSE, !.padded = FALSE]

\* re.search(r'(\d+)\s+<unit>', text) finds a match
unit_match(text, unit) == ~text.upper /\ ~text.padded /\ text.phrase = unit

\* '"<word>" in relative_time_text'
contains(text, word) == ~text.upper /\ text.phrase = word

\* timedelta(minutes=1), (hours=1), (days=1), (weeks=1), and (days=30) for a
\* month, in minutes.
timedelta_calendar_month(unit) ==
  CASE unit = "minute" -> 1
    [] unit = "hour" -> 60
    [] unit = "day" -> 24 * 60
    [] unit = "week" -> 7 * 24 * 60
    [] unit = "month" -> 31 * 24 * 60
timedelta(unit) ==
  CASE unit = "minute" -> 1
    [] unit = "hour" -> 60
    [] unit = "day" -> 24 * 60
    [] unit = "week" -> 7 * 24 * 60
    [] unit = "month" -> 30 * 24 * 60

NoTime == [none |-> TRUE, at |-> 0]
Time(at) == [none |-> FALSE, at |-> at]

\* utils.parse_relative_time
parse_relative_time(relative_time_text) ==
  IF relative_time_text.phrase = "" /\ ~relative_time_text.padded THEN NoTime
  ELSE LET text == lower_strip(relative_time_text)
       IN IF unit_match(text, "minute") THEN Time(now - text.n * timedelta("minute"))
          ELSE IF unit_match(text, "hour") THEN Time(now - text.n * timedelta("hour"))
          ELSE IF unit_match(text, "day") THEN Time(now - text.n * timedelta("day"))
          ELSE IF unit_match(text, "week") THEN Time(now - text.n * timedelta("week"))
          ELSE IF unit_match(text, "month") THEN Time(now - text.n * timedelta("month"))
          ELSE IF contains(text, "just now") \/ contains(text, "just posted")
            THEN Time(now)
          ELSE IF contains(text, "yesterday") THEN Time(now - timedelta("day"))
          ELSE NoTime

RelativeTimeCalls == [fn : {"parse_relative_time"}, text : RelativeTimeTexts]

InitRelativeTime ==
  /\ InitIdle
  /\ call \in RelativeTimeCalls
  /\ result = NoResult

\* A caller parses the relative time of a job card.
call_parse_relative_time ==
  /\ call.fn = "parse_relative_time"
  /\ result = NoResult
  /\ result' = [fn |-> "parse_relative_time",
                time |-> parse_relative_time(call.text)]
  /\ UNCHANGED <<call, crawlvars, queuevars, storevars>>

NextRelativeTime == call_parse_relative_time

RelativeTimeSpec == InitRelativeTime /\ [][NextRelativeTime]_vars

\* ---------------------------------------------------------- item pipelines
\* LinkedinJobPipeline._ensure_backward_compatibility: new name -> old name.
field_mapping ==
  [id |-> "job_id", title |-> "job_title", companyName |-> "company_name",
   link |-> "job_url", descriptionText |-> "job_description",
   postedAt |-> "date_posted"]
NewFields == DOMAIN field_mapping
OldFields == {field_mapping[new_field] : new_field \in NewFields}
ItemFields == NewFields \cup OldFields

\* Values of an item field as it reaches a pipeline; a field that was never
\* set reads as None (adapter.get).  parse_job_details sets no field under
\* its old name.
NewFieldValues == {PyNone, "", " ", "Nurse", " Nurse ", "jobs/view/7"}
OldFieldValues == {PyNone}

\* LinkedinJobPipeline._clean_text: ' '.join(text.split())
clean_text(text) ==
  IF ~truthy(text) THEN ""
  ELSE CASE text = " Nurse " -> "Nurse"
         [] text = " " -> ""
         [] OTHER -> text

\* LinkedinJobPipeline._clean_html on values without script or style
\* elements: html.strip()
clean_html(html) == IF ~truthy(html) THEN "" ELSE strip(html)

\* re.search(r'view/(\d+)', link).group(1), None when there is no match.
id_in_link(link) == IF link = "jobs/view/7" THEN "7" ELSE PyNone

\* The two loops of _ensure_backward_compatibility.
ensure_backward_compatibility(adapter) ==
  LET new_to_old ==
        [f \in ItemFields |->
           IF f \in OldFields
             THEN LET new_field == CHOOSE n \in NewFields : field_mapping[n] = f
                  IN IF truthy(adapter[new_field]) /\ ~truthy(adapter[f])
                       THEN adapter[new_field] ELSE adapter[f]
             ELSE adapter[f]]
  IN [f \in ItemFields |->
        IF f \in NewFields
          THEN IF truthy(new_to_old[field_mapping[f]]) /\ ~truthy(new_to_old[f])
                 THEN new_to_old[field_mapping[f]] ELSE new_to_old[f]
          ELSE new_to_old[f]]

\* LinkedinJobPipeline.process_item (settings.ITEM_PIPELINES): text cleaning,
\* HTML cleaning, the id taken from the link, the legacy mapping.
LinkedinJobPipeline_process_item(item) ==
  LET text_cleaned ==
        [f \in ItemFields |->
           IF f \in {"title", "companyName"} /\ truthy(item[f])
             THEN clean_text(item[f]) ELSE item[f]]
      html_cleaned ==
        [f \in ItemFields |->
           IF f \in {"descriptionText", "job_description"} /\ truthy(text_cleaned[f])
             THEN clean_html(text_cleaned[f]) ELSE text_cleaned[f]]
      with_id ==
        IF ~truthy(html_cleaned["id"]) /\ truthy(html_cleaned["link"])
             /\ id_in_link(html_cleaned["link"]) # PyNone
          THEN [html_cleaned EXCEPT !["id"] = id_in_link(html_cleaned["link"])]
          ELSE html_cleaned
  IN ensure_backward_compatibility(with_id)

\* MemoryStoragePipeline.process_item (the ITEM_PIPELINES run_apify_actor
\* sets): None stays None, every other value becomes str(value).
MemoryStoragePipeline_process_item(item) == [f \in ItemFields |-> item[f]]

ITEM_PIPELINES == {"LinkedinJobPipeline", "MemoryStoragePipeline"}

\* An item in which one pair of the mapping table carries values.
PipelineItem(new_field, new_value, old_value) ==
  [f \in ItemFields |->
     IF f = new_field THEN new_value
     ELSE IF f = field_mapping[new_field] THEN old_value
     ELSE PyNone]

PipelineCalls ==
  {[fn |-> "process_item", pipeline |-> pl,
    item |-> PipelineItem(nf, nv, ov)] :
     pl \in ITEM_PIPELINES, nf \in NewFields,
     nv \in NewFieldValues, ov \in OldFieldValues}

InitPipeline ==
  /\ InitIdle
  /\ call \in PipelineCalls
  /\ result = NoResult

\* The configured pipeline hands the record to its sink.
process_item ==
  /\ call.fn = "process_item"
  /\ result = NoResult
  /\ result' = [fn |-> "process_item",
                item |-> IF call.pipeline = "LinkedinJobPipeline"
                           THEN LinkedinJobPipeline_process_item(call.item)
                           ELSE MemoryStoragePipeline_process_item(call.item)]
  /\ UNCHANGED <<call, crawlvars, queuevars, storevars>>

NextPipeline == process_item

PipelineSpec == InitPipeline /\ [][NextPipeline]_vars

\* ------------------------------------------- handle_security_challenge
\* Python floats with a mantissa of MantissaBits bits; a number is counted in
\* units of 2^-MantissaBits.  The result of an arithmetic operation is the
\* exact result rounded to the nearest float, ties to the even mantissa.
round_float(n) ==
  IF n < 2^MantissaBits THEN n
  ELSE LET e == CHOOSE x \in 1..(MantissaBits + 4) :
                  2^(MantissaBits + x - 1) <= n /\ n < 2^(MantissaBits + x)
           q == n \div 2^e
           r == n % 2^e
       IN IF 2 * r > 2^e \/ (2 * r = 2^e /\ q % 2 = 1)
            THEN (q + 1) * 2^e ELSE q * 2^e

\* random.uniform(a, b): 'a + (b - a) * self.random()', where random() is
\* random / 2^MantissaBits for a random in 0 .. 2^MantissaBits - 1.
uniform(a, b, random) ==
  round_float(a * 2^MantissaBits + round_float((b - a) * random))

\* A call of handle_security_challenge: whether the URL contains
\* 'checkpoint', the status code, and what random() returns in the call.
SecurityCalls ==
  [fn : {"handle_security_challenge"}, checkpoint : BOOLEAN,
   status_code : {200, 302, 399, 400, 404, 429, 499, 500, 503, 599, 600, 999},
   random : 0..(2^MantissaBits - 1)]

InitSecurity ==
  /\ InitIdle
  /\ call \in SecurityCalls
  /\ result = NoResult

\* process_response asks the SecurityManager about a response.
call_handle_security_challenge ==
  /\ call.fn = "handle_security_challenge"
  /\ result = NoResult
  /\ LET found == handle_security_challenge(call.checkpoint, call.status_code)
     IN result' = [fn |-> "handle_security_challenge",
                   none |-> found = NoAction,
                   action |-> found.action,
                   delay |-> IF found = NoAction THEN 0
                             ELSE uniform(found.lo, found.hi, call.random)]
  /\ UNCHANGED <<call, crawlvars, queuevars, storevars>>

SecuritySpec == InitSecurity /\ [][call_handle_security_challenge]_vars

\* ------------------------------------------------ dedup of discovered links
\* The dedup of a loop over discovered links ('for job_card in job_cards',
\* 'for job_link in job_links'): for each link in turn whether it is skipped
\* as already processed; the id of a link that is not skipped joins the set.
RECURSIVE skip_processed(_, _)
skip_processed(job_links, processed) ==
  IF job_links = <<>> THEN <<>>
  ELSE LET job_id == extract_job_id_from_url(Head(job_links))
       IN IF job_id \in processed
            THEN <<TRUE>> \o skip_processed(Tail(job_links), processed)
            ELSE <<FALSE>> \o skip_processed(Tail(job_links),
                                             processed \cup {job_id})

\* A listing page of a fresh crawl showing up to MaxLinks links, parsed by
\* one of the two listing callbacks.
InitDedup ==
  /\ InitIdle
  /\ call \in {[fn |-> "discover", cb |-> cb, job_links |-> job_links] :
                 cb \in {"parse_search_results", "parse_company_jobs_page"},
                 job_links \in UNION {[1..n -> Links] : n \in 0..MaxLinks}}
  /\ result = NoResult

\* The loop of the callback runs over the links of the page.
discover_links ==
  /\ call.fn = "discover"
  /\ result = NoResult
  /\ result' = [fn |-> "discover",
                skipped |-> skip_processed(call.job_links, processed_job_ids)]
  /\ processed_job_ids' = processed_job_ids \cup
       {extract_job_id_from_url(call.job_links[k]) : k \in DOMAIN call.job_links}
  /\ UNCHANGED <<call, cfgvars, page_count, job_count, reached_job_limit,
                 enginevars, outvars, histvars, queuevars, storevars>>

DedupSpec == InitDedup /\ [][discover_links]_vars

\* --------------------------------------------------- process_queue_urls
\* main.process_queue_urls starts on a request queue holding up to
\* MaxQueueUrls requests, some of them without a URL; max_jobs is the actor
\* input.  A request fetched from the queue is locked until it is marked
\* handled or reclaimed.
InitQueue ==
  /\ InitSpider({None})
  /\ max_jobs = init_max_jobs(None)
  /\ collect_urls_only = FALSE
  /\ scheduler = {}
  /\ budget = 0
  /\ links_left = 0
  /\ call \in [fn : {"process_queue_urls"}, max_jobs : 0..MaxJobsBound]
  /\ result = NoResult
  /\ \E pending \in SUBSET (1..MaxQueueUrls) : \E no_url \in SUBSET pending :
       request_queue = [pending |-> pending, handled |-> {}, no_url |-> no_url]
  /\ request_info = None
  /\ processed_count = 0
  /\ queue_pc = "fetch"
  /\ items = <<test_item>>
  /\ json_output = <<test_item>>
  /\ arrived = <<>>
  /\ pipeline_open = TRUE

\* The head of 'while True': the job-limit test, fetch_next_request, and the
\* test for an empty queue.
fetch_next_request ==
  /\ queue_pc = "fetch"
  /\ IF call.max_jobs > 0 /\ processed_count >= call.max_jobs
       THEN queue_pc' = "done" /\ UNCHANGED <<request_queue, request_info>>
     ELSE IF request_queue.pending = {}
       THEN queue_pc' = "done" /\ UNCHANGED <<request_queue, request_info>>
     ELSE \E request \in request_queue.pending :
            /\ request_info' = request
            /\ request_queue' = [request_queue EXCEPT !.pending = @ \ {request}]
            /\ queue_pc' = "process"
  /\ UNCHANGED <<fnvars, crawlvars, processed_count, storevars>>

\* The try block of the loop for the fetched request: a request without URL
\* is marked handled; otherwise the crawl of the URL and process_apify_items
\* run, and the request is marked handled, or an exception is raised and the
\* except block reclaims the request.
process_queue_url ==
  /\ queue_pc = "process"
  /\ IF request_info \in request_queue.no_url
       THEN /\ request_queue' = [request_queue EXCEPT !.handled = @ \cup {request_info}]
            /\ UNCHANGED processed_count
       ELSE \E raised \in BOOLEAN :
              IF raised
                THEN /\ request_queue' =
                          [request_queue EXCEPT !.pending = @ \cup {request_info}]
                     /\ UNCHANGED processed_count
                ELSE /\ request_queue' =
                          [request_queue EXCEPT !.handled = @ \cup {request_info}]
                     /\ processed_count' = processed_count + 1
  /\ request_info' = None
  /\ queue_pc' = "fetch"
  /\ UNCHANGED <<fnvars, crawlvars, storevars>>

\* asyncio runs the coroutine as long as it has a step to take.
QueueSpec ==
  /\ InitQueue
  /\ [][fetch_next_request \/ process_queue_url]_vars
  /\ WF_vars(fetch_next_request \/ process_queue_url)

\* ------------------------------------------------ LinkedinJobPipeline.items
\* The pipeline after __init__: the test item is in the list, and
\* _write_json_backup has written the list unless every path failed.  An
\* entry of the list is the test item, the dummy job, or the job item that
\* arrived as the k-th item.
InitStore ==
  /\ InitSpider({None})
  /\ max_jobs = init_max_jobs(None)
  /\ collect_urls_only = FALSE
  /\ scheduler = {}
  /\ budget = 0
  /\ links_left = 0
  /\ call = NoCall
  /\ result = NoResult
  /\ request_queue = [pending |-> {}, handled |-> {}, no_url |-> {}]
  /\ request_info = None
  /\ processed_count = 0
  /\ queue_pc = "idle"
  /\ items = <<test_item>>
  /\ json_output \in {<<>>, items}
  /\ arrived = <<>>
  /\ pipeline_open = TRUE

\* LinkedinJobPipeline.process_item for the next item of the crawl: an
\* exception raised by the cleaning steps is caught and the item is returned
\* without being stored; otherwise the item is appended and the list is
\* written out (the write is skipped when every path fails).
store_item ==
  /\ pipeline_open
  /\ Len(arrived) < MaxItems
  /\ \E raised \in BOOLEAN :
       /\ arrived' = Append(arrived, ~raised)
       /\ IF raised
            THEN UNCHANGED <<items, json_output>>
            ELSE /\ items' = Append(items, [kind |-> "job",
                                            arrival |-> Len(arrived) + 1])
                 /\ json_output' \in {json_output, items'}
  /\ UNCHANGED <<fnvars, crawlvars, queuevars, pipeline_open>>

\* LinkedinJobPipeline.close_spider
close_spider_always_dummy ==
  /\ pipeline_open
  /\ items' = Append(items, dummy_job)
  /\ json_output' \in {json_output, items'}
  /\ pipeline_open' = FALSE
  /\ UNCHANGED <<fnvars, crawlvars, queuevars, arrived>>
close_spider ==
  /\ pipeline_open
  /\ items' = IF Len(items) <= 1 THEN Append(items, dummy_job) ELSE items
  /\ json_output' \in {json_output, items'}
  /\ pipeline_open' = FALSE
  /\ UNCHANGED <<fnvars, crawlvars, queuevars, arrived>>

StoreSpec == InitStore /\ [][store_item \/ close_spider]_vars

\* ------------------------------------------- pacing and retry state
\* What the downloader middleware's hooks act on besides the engine: the
\* middleware's request_count, the SecurityManager's request_count and
\* last_request_time, the seconds spent in time.sleep during the call, and
\* the request's meta['retry_count'] and whether it carries cookies.  Times
\* are whole seconds; a random delay counts with the lower end of its range.

\* SecurityManager.apply_rate_limiting, time_since_last seconds after the
\* last request.
apply_rate_limiting(pacing, time_since_last) ==
  LET delay == (IF pacing.sm_request_count < 5 THEN 1
                ELSE IF pacing.sm_request_count < 15 THEN 3 ELSE 5)
               + (IF time_since_last < 1 THEN 2 ELSE 0)
  IN [pacing EXCEPT !.slept = @ + delay,
                    !.last_request_time = @ + time_since_last + delay]

\* SecurityManager.get_request_headers
get_request_headers(pacing) ==
  [pacing EXCEPT !.sm_request_count = @ + 1]

\* LinkedinScraperDownloaderMiddleware.process_request on the pacing state.
process_request_pacing(pacing, time_since_last, spider_cookies) ==
  IF request_skipped THEN pacing
  ELSE LET paced == get_request_headers(apply_rate_limiting(pacing, time_since_last))
       IN [paced EXCEPT !.cookies = @ \/ spider_cookies,
                        !.mw_request_count = @ + 1,
                        !.slept = IF (paced.mw_request_count + 1) % 10 = 0
                                    THEN @ + 10 ELSE @]

\* LinkedinScraperDownloaderMiddleware.process_response on the pacing state.
process_response_pacing(pacing, net) ==
  IF response_skipped THEN pacing
  ELSE LET action == handle_security_challenge(net.checkpoint, net.status)
       IN IF action = NoAction THEN pacing
          ELSE IF action.action # "retry"
            THEN [pacing EXCEPT !.slept = @ + action.lo]
          ELSE LET cleared == get_request_headers(
                                [pacing EXCEPT !.slept = @ + action.lo,
                                               !.cookies = FALSE])
               IN IF pacing.retry_count + 1 <= MAX_RETRIES
                    THEN [cleared EXCEPT !.retry_count = @ + 1]
                    ELSE cleared

\* LinkedinScraperDownloaderMiddleware.process_exception on the pacing state.
process_exception_pacing(pacing) ==
  IF exception_skipped THEN pacing
  ELSE [pacing EXCEPT !.slept = @ + 5,
                      !.cookies = FALSE,
                      !.retry_count = IF @ + 1 <= MAX_RETRIES THEN @ + 1 ELSE @]

\* A hook is called for a request in some pacing state, with the limit flag
\* set or unset.
InitPacing ==
  /\ max_pages_arg = None
  /\ max_pages = init_max_pages(None)
  /\ max_jobs = init_max_jobs(None)
  /\ collect_urls_only = FALSE
  /\ page_count = 0
  /\ job_count = 0
  /\ reached_job_limit \in BOOLEAN
  /\ processed_job_ids = {}
  /\ scheduler = {}
  /\ slot = NoSlot
  /\ squeue = {}
  /\ gen = NoGen
  /\ emitted = <<>>
  /\ url_items = <<>>
  /\ phase = "running"
  /\ stop_signalled = FALSE
  /\ fetched_at_stop = {}
  /\ budget = 0
  /\ links_left = 0
  /\ HostIdle
  /\ result = NoResult
  /\ call \in
       [fn : {"process_request", "process_response", "process_exception"},
        pacing : [mw_request_count : {0, 9}, sm_request_count : {0, 4, 14},
                  last_request_time : {100}, slept : {0},
                  retry_count : 0..MAX_RETRIES, cookies : BOOLEAN],
        time_since_last : {0, 2}, spider_cookies : BOOLEAN,
        net : {[checkpoint |-> FALSE, status |-> 200, text |-> PlainText],
               [checkpoint |-> FALSE, status |-> 429, text |-> PlainText],
               [checkpoint |-> TRUE, status |-> 200, text |-> PlainText]}]

\* The engine calls the hook.
call_downloader_hook ==
  /\ call.fn \in {"process_request", "process_response", "process_exception"}
  /\ result = NoResult
  /\ result' =
       [fn |-> call.fn,
        pacing |->
          CASE call.fn = "process_request" ->
                 process_request_pacing(call.pacing, call.time_since_last,
                                        call.spider_cookies)
            [] call.fn = "process_response" ->
                 process_response_pacing(call.pacing, call.net)
            [] call.fn = "process_exception" ->
                 process_exception_pacing(call.pacing)]
  /\ UNCHANGED <<call, crawlvars, queuevars, storevars>>

PacingSpec == InitPacing /\ [][call_downloader_hook]_vars

\* ------------------------------------------------------------- properties
\* Every request the engine currently holds: scheduled, in the downloader, or
\* attached to a response that waits for its callback.
AllRequests ==
  scheduler \cup (IF slot = NoSlot THEN {} ELSE {slot}) \cup {r.req : r \in squeue}

DetailResponses == {r \in squeue : r.req.cb = "parse_job_details"}

EmittedIds == {emitted[i].id : i \in DOMAIN emitted}

\* C1: with max_jobs = N > 0 the number of job records yielded by
\* parse_job_details never exceeds N, and neither does the number of URL
\* items yielded in URL-collection mode.
C1_BoundedOutput ==
  max_jobs > 0 => (Len(emitted) <= max_jobs /\ Len(url_items) <= max_jobs)

\* C1 witness: in a crawl of listing pages N records are out while a further
\* fetched detail page waits for its callback.
C1_Witness ==
  /\ page_count > 0
  /\ max_jobs > 0
  /\ Len(emitted) = max_jobs
  /\ \E r \in DetailResponses : ~r.synthetic

\* C2: no two emitted job records carry the same id.
C2_UniqueIds ==
  \A i, j \in DOMAIN emitted : i # j => emitted[i].id # emitted[j].id

\* C2 witness: the record of a job found on a card or a company listing is
\* out, and a page fetched for a direct link to the same job waits for its
\* callback while the limit flag is still unset.
C2_Witness ==
  /\ ~reached_job_limit
  /\ \E r \in DetailResponses, i \in DOMAIN emitted :
       /\ ~r.synthetic
       /\ r.req.job_id = None
       /\ emitted[i].meta_id # None
       /\ extract_job_id_comprehensive(r) = emitted[i].id

\* C3: in a crawl of listing pages, once job_count has reached max_jobs (> 0)
\* no detail request for a further candidate has been issued: none is in the
\* downloader and no downloaded detail page waits for its callback.
C3_NoFurtherDetailRequest ==
  (page_count > 0 /\ max_jobs > 0 /\ job_count >= max_jobs) =>
    /\ slot = NoSlot \/ slot.cb # "parse_job_details"
    /\ \A r \in DetailResponses : r.synthetic

\* C4: both counters start at 0, never decrease, page_count stays within
\* max_pages and, with max_jobs > 0, job_count stays within max_jobs.
C4_CountersBounded ==
  /\ page_count = 0 /\ job_count = 0
  /\ [](/\ page_count <= max_pages
        /\ max_jobs > 0 => job_count <= max_jobs)
  /\ [][page_count' >= page_count /\ job_count' >= job_count]_vars

\* C4 witness: the last allowed page has been parsed and the job limit is
\* reached.
C4_Witness ==
  /\ max_pages > 1
  /\ page_count = max_pages
  /\ max_jobs > 0
  /\ job_count = max_jobs

\* C5: a request is re-issued because of a security-challenge response at
\* most 3 times.
C5_ChallengeRetriesCapped ==
  \A request \in AllRequests : request.chal_retries <= MAX_RETRIES

\* C5 witness: the challenge answering the third challenge retry was handed
\* on instead of being retried.
C5_Witness ==
  \E r \in squeue : r.exhausted /\ r.req.chal_retries = MAX_RETRIES

\* C6 as claimed: first attempt and retries together never exceed 3 fetches.
C6_ThreeAttempts ==
  \A request \in AllRequests : request.fetches <= MAX_RETRIES

\* C6 amended: first attempt and retries together never exceed 4 fetches
\* (the first attempt and at most 3 retries).
C6_FourAttempts ==
  \A request \in AllRequests : request.fetches <= MAX_RETRIES + 1

\* C6 witness: a fourth fetch of a request that was retried both after a
\* challenge and after a network exception.
C6_Witness ==
  /\ slot # NoSlot
  /\ slot.fetches = MAX_RETRIES + 1
  /\ slot.chal_retries > 0
  /\ slot.chal_retries < slot.retry_count

\* C7: a challenge response that exhausted the retries is not handed to a
\* callback and no job record is produced from it.
C7_ExhaustedPageAbandoned ==
  /\ \A r \in squeue : ~r.exhausted
  /\ \A i \in DOMAIN emitted : ~emitted[i].challenge

\* C8: a response whose text matches a CAPTCHA indicator is retried instead of
\* being handed to a callback, unless the retry cap is used up.
C8_CaptchaRetried ==
  \A r \in squeue :
    (is_captcha_page(r.text) /\ ~r.limit_passed) =>
      r.req.retry_count >= MAX_RETRIES

\* C9: after the stop-signal handler has run no request goes to the
\* downloader and no retry is scheduled.
C9_NoRequestAfterStop ==
  [][stop_signalled =>
       /\ slot' = slot \/ slot' = NoSlot
       /\ \A request \in scheduler' \ scheduler : request.retry_count = 0]_vars

\* C9 witness: the stop arrived while a request was in the downloader, and
\* its challenge response was handed on without a retry.
C9_Witness ==
  /\ stop_signalled
  /\ max_jobs = 0
  /\ \E r \in squeue : r.checkpoint /\ r.limit_passed /\ r.req.retry_count = 0

\* C10: when the run is over after a stop signal, every detail response that
\* was already fetched when the signal arrived has its record in the output.
C10_FetchedBeforeStopEmitted ==
  (stop_signalled /\ RunOver) =>
    \A r \in fetched_at_stop : extract_job_id_comprehensive(r) \in EmittedIds

\* The requests one step adds to the scheduler that ask for a listing page
\* (a search-results page or a company-jobs page).
NewListingRequests ==
  {request \in scheduler' \ scheduler : request.cb # "parse_job_details"}

\* C11: once page_count has reached max_pages no request for a listing page
\* is issued, neither by the search pagination nor by the company pagination
\* nor by the company page's fallbacks to the search.
C11_NoListingPastCeiling ==
  [][page_count' >= max_pages => NewListingRequests = {}]_vars

\* The pagination block of a listing callback is reached with the limit flag
\* unset and its page-ceiling test false: the ceiling keeps the callback from
\* following the page's next link.
CeilingBlocks ==
  /\ gen # NoGen
  /\ gen.left = 0
  /\ ~reached_job_limit
  /\ \/ gen.cb = "parse_search_results" /\ ~(page_count < max_pages)
     \/ gen.cb = "parse_company_jobs_page" /\ ~(gen.page < max_pages)

\* C12: when the max_pages argument is not set, no page ceiling ever keeps a
\* listing callback from following the next listing page, however many pages
\* have been parsed.
C12_UnsetPagesUnlimited ==
  max_pages_arg = None => ~CeilingBlocks

\* A source has a value when it is a text that is not empty after stripping.
HasValue(value) == truthy(value) /\ truthy(strip(value))

\* C13: title, companyName and location of a record are chosen by the
\* precedence selector value > embedded-JSON value > referrer meta value >
\* null: a non-empty selector value is never replaced by an embedded-JSON
\* value, and a field none of whose sources has a value is null.
C13_FieldPrecedence ==
  result # NoResult =>
    result.value =
      IF HasValue(call.selector) THEN strip(call.selector)
      ELSE IF HasValue(call.json) THEN call.json
      ELSE IF HasValue(call.meta) THEN call.meta
      ELSE PyNone

\* C14: in every record a pipeline delivers to its sink, each pair of the
\* legacy mapping table of which exactly one side was populated carries the
\* same populated value on both sides.
C14_LegacySymmetry ==
  result # NoResult =>
    \A new_field \in NewFields :
      LET old_field == field_mapping[new_field]
      IN (truthy(call.item[new_field]) # truthy(call.item[old_field])) =>
           /\ truthy(result.item[new_field])
           /\ result.item[old_field] = result.item[new_field]

\* What each method of the id resolution finds for a call, in the order of
\* the methods.
MethodFinds ==
  <<call.meta_id, extract_job_id_from_url(call.url), call.data_job_id,
    extract_job_id_from_url(call.canonical_url), call.json_id, call.script_id>>

\* C15: the id resolution always returns an id; it is what the first
\* successful method found, in the order meta id, URL pattern, data-job-id
\* attribute, canonical link, embedded JSON, inline script; when no method
\* succeeds it is the 'gen-' id of the URL, whatever the document contains.
C15_IdChain ==
  result # NoResult =>
    /\ result.job_id # None
    /\ \A k \in DOMAIN MethodFinds :
         (MethodFinds[k] # None /\ \A j \in 1..(k - 1) : MethodFinds[j] = None)
           => result.job_id = MethodFinds[k]
    /\ (\A k \in DOMAIN MethodFinds : MethodFinds[k] = None)
         => result.job_id = gen_id(call.url)

\* C15 witness: a page whose URL matches no pattern and whose document
\* carries no id got the fallback id of its URL.
C15_Witness ==
  /\ result # NoResult
  /\ call.fn = "extract_job_id"
  /\ \A k \in DOMAIN MethodFinds : MethodFinds[k] = None
  /\ result.job_id = gen_id(call.url)

\* C16: every emitted job record has a non-empty id, which is a real job id
\* or the fallback id derived from the URL of its page, and a populated
\* scraped_at, whatever the page and the referrer meta contained.
C16_IdAndTimestamp ==
  \A i \in DOMAIN emitted :
    /\ emitted[i].id # None
    /\ emitted[i].id \in 1..NJobs \/ emitted[i].id = gen_id(emitted[i].link)
    /\ emitted[i].scraped_at # PyNone /\ emitted[i].scraped_at # ""

\* C16 witness: a record was emitted for a page reached without a meta id,
\* whose URL and document gave no id either.
C16_Witness ==
  \E i \in DOMAIN emitted :
    /\ emitted[i].meta_id = None
    /\ emitted[i].id > GenBase
    /\ emitted[i].id = gen_id(emitted[i].link)

\* A step in which parse_job_details produced a record: job_count rose and
\* no URL item was yielded.
RecordProduced == job_count' # job_count /\ url_items' = url_items

\* C17: the record whose production makes job_count reach max_jobs is in the
\* output although the limit flag is set when it is yielded; every record
\* produced before it is in the output too, and once the flag is set no
\* further record is emitted.
C17_CrossingRecordIncluded ==
  [][/\ (max_jobs > 0 /\ RecordProduced /\ job_count' = max_jobs) =>
          /\ reached_job_limit'
          /\ Len(emitted') = Len(emitted) + 1
     /\ RecordProduced => Len(emitted') = Len(emitted) + 1
     /\ reached_job_limit => emitted' = emitted]_vars

\* C17 witness: the limit was reached by producing records, not by a stop
\* signal, and the last of the max_jobs records is in the output.
C17_Witness ==
  /\ max_jobs > 1
  /\ page_count > 0
  /\ reached_job_limit /\ ~stop_signalled
  /\ job_count = max_jobs
  /\ url_items = <<>>
  /\ Len(emitted) = max_jobs
  /\ emitted[max_jobs].id \in processed_job_ids

\* C18: job records are emitted in discovery order: when candidate X was
\* enumerated on a listing page before candidate Y of the same page and both
\* have a record in the output, X's record comes before Y's.
C18_DiscoveryOrder ==
  \A i, j \in DOMAIN emitted :
    (/\ emitted[i].listing > 0
     /\ emitted[i].listing = emitted[j].listing
     /\ emitted[i].seq < emitted[j].seq) => i < j

\* C19: a run with debug=True and a run with debug=False that are fed the
\* same configuration and the same response yield the same requests and
\* items from it.
C19_DebugOnlyVerbosity ==
  result # NoResult =>
    /\ result.verbose.candidates = result.quiet.candidates
    /\ result.verbose.next_page = result.quiet.next_page

\* C20: parse_relative_time returns the reference time minus magnitude times
\* unit for a number with a minute, hour, day or week unit, counts a month as
\* 30 days, returns the reference time for 'just now' and 'just posted', the
\* reference time minus one day for 'yesterday', and None for an empty or
\* unrecognised text; '2 days ago' gives the reference time minus 48 hours.
C20_RelativeTime ==
  result # NoResult =>
    LET phrase == call.text.phrase
        n == call.text.n
        minutes_ago ==
          CASE phrase = "minute" -> n
            [] phrase = "hour" -> n * 60
            [] phrase = "day" -> n * 1440
            [] phrase = "week" -> n * 10080
            [] phrase = "month" -> n * 43200
            [] phrase = "yesterday" -> 1440
            [] OTHER -> 0
    IN /\ phrase \in {"", "recently"} => result.time.none
       /\ phrase \notin {"", "recently"} =>
            /\ ~result.time.none
            /\ result.time.at = now - minutes_ago
       /\ (phrase = "day" /\ n = 2) => result.time.at = now - 48 * 60

\* C20 witness: 'N months ago' with N > 1 was parsed.
C20_Witness ==
  /\ result # NoResult
  /\ call.fn = "parse_relative_time"
  /\ call.text.phrase = "month" /\ call.text.n > 1
  /\ call.text.upper /\ call.text.padded
  /\ ~result.time.none

\* C21: a detail request is created for a discovered link only after the
\* dedup check: on every discovery path (search cards, company-jobs links,
\* direct links of a page without cards) no new detail request is enqueued
\* for a link whose id is already in processed_job_ids.  Only links whose URL
\* is neither held by the engine nor the URL of an emitted record are looked
\* at, since the engine's duplicate filter drops a URL it has seen.
C21_DedupBeforeEnqueue ==
  [][\A request \in scheduler' \ scheduler :
       (/\ request.cb = "parse_job_details"
        /\ request.retry_count = 0
        /\ \A held \in AllRequests : held.url # request.url
        /\ \A i \in DOMAIN emitted : emitted[i].link # request.url) =>
         extract_job_id_from_url(request.url) \notin processed_job_ids]_vars

\* C22: listing pages are requested in strictly increasing page-number
\* order: a step creates at most one request for a listing page, creates it
\* only while the limit flag is unset and after the loop over the page's
\* candidates has ended, and the page number it asks for is higher than every
\* page number parsed so far.
C22_PagesInOrder ==
  [][LET created == {request \in scheduler' \ scheduler :
                       request.cb # "parse_job_details" /\ request.retry_count = 0}
     IN /\ Cardinality(created) <= 1
        /\ \A request \in created :
             /\ ~reached_job_limit
             /\ gen # NoGen => gen.left = 0
             /\ request.page > page_count']_vars

\* C23: the limit-reached state is absorbing: once reached_job_limit is True
\* it stays True, and a parse_job_details call that starts with the flag set
\* emits no record and leaves job_count and processed_job_ids as they are.
C23_LimitAbsorbing ==
  [][reached_job_limit =>
       /\ reached_job_limit'
       /\ (\E response \in squeue \ squeue' :
             response.req.cb = "parse_job_details") =>
            /\ emitted' = emitted
            /\ job_count' = job_count
            /\ processed_job_ids' = processed_job_ids]_vars

\* C23 witness: a stop signal set the flag while downloaded detail pages
\* waited for their callback; the callbacks have run since and the job of one
\* of these pages is neither in the output nor in processed_job_ids.
C23_Witness ==
  /\ stop_signalled
  /\ reached_job_limit
  /\ phase = "closing"
  /\ squeue = {}
  /\ \E response \in fetched_at_stop :
       /\ extract_job_id_comprehensive(response) \notin EmittedIds
       /\ extract_job_id_comprehensive(response) \notin processed_job_ids

\* C24: every id in processed_job_ids belongs to a job whose record (or URL
\* item) has been emitted or whose detail request is still pending: queued,
\* being fetched, or fetched and waiting for its callback.  Checked for the
\* real ids (not the None of a link without id) of runs that got no stop
\* signal.
C24_ProcessedIdsAccounted ==
  \A job_id \in processed_job_ids \ {None} :
    \/ stop_signalled
    \/ job_id \in EmittedIds
    \/ \E i \in DOMAIN url_items : url_items[i].id = job_id
    \/ \E request \in AllRequests :
         /\ request.cb = "parse_job_details"
         /\ job_id \in {request.job_id, extract_job_id_from_url(request.url)}

\* C25 as claimed: handle_security_challenge classifies by the first matching
\* rule in the order 'checkpoint' in the URL, 429, 999, other 4xx, 5xx, with
\* action 'retry' and a delay in [60, 120), [300, 600), [120, 240), [30, 60)
\* and [60, 120) seconds, and returns None exactly when no rule matches.
C25_ChallengeRules ==
  result # NoResult =>
    LET st == call.status_code
        rule == IF call.checkpoint THEN <<60, 120>>
                ELSE IF st = 429 THEN <<300, 600>>
                ELSE IF st = 999 THEN <<120, 240>>
                ELSE IF st \in 400..499 THEN <<30, 60>>
                ELSE IF st \in 500..599 THEN <<60, 120>>
                ELSE <<>>
    IN /\ result.none <=> rule = <<>>
       /\ rule # <<>> =>
            /\ result.action = "retry"
            /\ rule[1] * 2^MantissaBits <= result.delay
            /\ result.delay < rule[2] * 2^MantissaBits

\* C25 amended: the same rules and order, the delay lying in the closed
\* ranges [60, 120], [300, 600], [120, 240], [30, 60] and [60, 120].
C25_ChallengeRulesClosed ==
  result # NoResult =>
    LET st == call.status_code
        rule == IF call.checkpoint THEN <<60, 120>>
                ELSE IF st = 429 THEN <<300, 600>>
                ELSE IF st = 999 THEN <<120, 240>>
                ELSE IF st \in 400..499 THEN <<30, 60>>
                ELSE IF st \in 500..599 THEN <<60, 120>>
                ELSE <<>>
    IN /\ result.none <=> rule = <<>>
       /\ rule # <<>> =>
            /\ result.action = "retry"
            /\ rule[1] * 2^MantissaBits <= result.delay
            /\ result.delay <= rule[2] * 2^MantissaBits

\* C25 witness: a 429 response whose URL has no 'checkpoint' was classified
\* with a delay strictly inside the rate-limit range.
C25_Witness ==
  /\ result # NoResult
  /\ call.fn = "handle_security_challenge"
  /\ ~call.checkpoint /\ call.status_code = 429
  /\ result.action = "retry"
  /\ 300 * 2^MantissaBits < result.delay
  /\ result.delay < 600 * 2^MantissaBits

\* C26: a discovered link is skipped as already processed only if an earlier
\* discovered link belongs to the same job: links of different jobs are never
\* treated as duplicates of one another, whatever their URLs look like.
C26_OnlySameJobSkipped ==
  result # NoResult =>
    \A k \in DOMAIN call.job_links :
      result.skipped[k] =>
        \E j \in 1..(k - 1) : call.job_links[j].job = call.job_links[k].job

\* C27: once the limit flag is set, every request taken from the scheduler
\* is answered with the synthetic response and none goes to the network, a
\* callback run on a synthetic response emits nothing, no job record is
\* emitted, no request enters the scheduler, and the run eventually ends.
C27_DrainAfterLimit ==
  /\ [][reached_job_limit =>
          /\ slot' = slot \/ slot' = NoSlot
          /\ \A request \in scheduler \ scheduler' :
               SyntheticResponse(request) \in squeue'
          /\ (\E response \in squeue \ squeue' : response.synthetic) =>
               (emitted' = emitted /\ url_items' = url_items)
          /\ emitted' = emitted
          /\ scheduler' \subseteq scheduler]_vars
  /\ reached_job_limit ~> RunOver

\* C27 witness: the job limit, not a stop signal, set the flag while requests
\* were queued; one of them has been answered with the synthetic response and
\* another is still queued.
C27_Witness ==
  /\ reached_job_limit /\ ~stop_signalled
  /\ phase = "running"
  /\ max_jobs > 0 /\ job_count = max_jobs
  /\ scheduler # {}
  /\ \E response \in squeue : response.synthetic /\ response.req.fetches = 0

\* C28: process_queue_urls terminates for every finite request queue, also
\* when the processing of a URL fails at every attempt: each request taken
\* from the queue is then either marked handled or reclaimed, not both, and
\* the loop eventually ends.
C28_QueueTerminates ==
  /\ [][queue_pc = "process" =>
          (request_info \in request_queue'.handled)
            # (request_info \in request_queue'.pending)]_vars
  /\ <>(queue_pc = "done")

\* C29: the list LinkedinJobPipeline persists starts with the test item,
\* followed by exactly one entry per successfully processed item in arrival
\* order; entries are never removed or reordered; close_spider appends one
\* dummy item exactly when no real item was processed; and the list in the
\* output file is a list the pipeline held.
C29_ItemList ==
  /\ [](LET jobs == SelectSeq(items, LAMBDA entry : entry.kind = "job")
            dummies == SelectSeq(items, LAMBDA entry : entry.kind = "dummy")
        IN /\ items[1] = test_item
           /\ Len(items) = 1 + Len(jobs) + Len(dummies)
           /\ Len(jobs) = Cardinality({k \in DOMAIN arrived : arrived[k]})
           /\ \A i \in DOMAIN jobs :
                /\ jobs[i].arrival \in DOMAIN arrived
                /\ arrived[jobs[i].arrival]
                /\ \A j \in DOMAIN jobs : i < j => jobs[i].arrival < jobs[j].arrival
           /\ Len(dummies) = IF ~pipeline_open /\ Len(jobs) = 0 THEN 1 ELSE 0
           /\ json_output = SubSeq(items, 1, Len(json_output)))
  /\ [][SubSeq(items', 1, Len(items)) = items]_vars

\* C29 witness: the spider was closed after three items had arrived, the
\* second of which raised in process_item; the list holds the test item and
\* the two others, and the output file holds the same.
C29_Witness ==
  /\ ~pipeline_open
  /\ arrived = <<TRUE, FALSE, TRUE>>
  /\ Len(items) = 3
  /\ items[3].arrival = 3
  /\ json_output = items

\* C30: with reached_job_limit set, process_request, process_response and
\* process_exception leave the pacing and retry state as it is: no delay is
\* slept, neither request_count changes, last_request_time is not updated,
\* and the request's retry_count and cookies stay as they are.
C30_HooksFrame ==
  (result # NoResult /\ reached_job_limit) =>
    /\ result.pacing.slept = 0
    /\ result.pacing.mw_request_count = call.pacing.mw_request_count
    /\ result.pacing.sm_request_count = call.pacing.sm_request_count
    /\ result.pacing.last_request_time = call.pacing.last_request_time
    /\ result.pacing.retry_count = call.pacing.retry_count
    /\ result.pacing.cookies = call.pacing.cookies

\* C30 witness: with the flag set process_exception was called for a request
\* that carries cookies and has retries left.
C30_Witness ==
  /\ reached_job_limit
  /\ result # NoResult
  /\ call.fn = "process_exception"
  /\ call.pacing.cookies
  /\ call.pacing.retry_count < MAX_RETRIES
  /\ result.pacing = call.pacing

=============================================================================
